---- MODULE Spec2Model ----
(***************************************************************************)
(* Model of the geo-scoring engine of evac-proto                           *)
(* (mcp-servers/safety/src/lib/poi-index.ts): the lazily loaded point      *)
(* catalog, the within-radius query nearbyPois and the composite score     *)
(* scorePoint (Spec); the agent's GET /ai/explain handler of               *)
(* agent/src/server.ts with its OSM enrichment and its bilingual           *)
(* explanation (SpecAgent); the file reader and the availability term of   *)
(* the older library src/lib/score.ts (SpecScore); the catalog while the   *)
(* files of data/ are rewritten (SpecDisk); a caller that writes through   *)
(* the references scorePoint returns (SpecShared); ensureMcp of            *)
(* agent/src/mcpClient.ts under interleaved requests (SpecMcp); pageAll    *)
(* of the Overture download script (SpecPager).                            *)
(*                                                                         *)
(* Numbers.  JavaScript numbers are modelled by integers:                  *)
(*   - coordinates are whole degrees, distances and radii whole metres;    *)
(*   - NaN and Infinity are two reserved values outside every range the    *)
(*     model computes with; every operator that the code applies to a      *)
(*     possibly non-finite number treats them as IEEE-754 does;            *)
(*   - the count and proximity sub-scores are fixed-point numbers with     *)
(*     ONE standing for 1.0, the category scores and the total score are   *)
(*     fixed-point numbers with SCORE_ONE standing for 1.0.                *)
(***************************************************************************)
EXTENDS Integers, Sequences, FiniteSets, TLC

VARIABLES
    files,      \* the four GeoJSON files of data/, as found on disk
    LAYERS,     \* the module-level catalog cache: <<>> is null, <<L>> is loaded
    response,   \* what the last call of an exported function returned or threw
    locals,     \* the local values of the last scorePoint call at its return
    probe,      \* an observer's note: <<>>, or <<[seen, between]>> with seen an
                \* earlier scorePoint response and between telling whether a
                \* call with other arguments was made since
    cache,      \* the per-layer cache of the older library score.ts: for each
                \* layer <<>> while it is not set, <<pts>> once it is
    reads,      \* for each file of data/, how often poi-index.ts has read it
    weightsObj, \* the properties of the module-level object WEIGHTS
    mcp,        \* the agent's MCP client module and the requests it serves
    pager       \* the run of pageAll of the dataset listing script

vars == <<files, LAYERS, response, locals, probe, cache, reads, weightsObj, mcp, pager>>

----------------------------------------------------------------------------
(* Numbers *)

NaN == 0 - 2000000000
Infinity == 0 - NaN

isFinite(x) == x # NaN /\ x # Infinity

\* A finite number of a magnitude, such as 1e308, that a multiplication by
\* Math.PI takes to Infinity.
HUGE == Infinity - 1

Abs(x) == IF x < 0 THEN 0 - x ELSE x
Min2(a, b) == IF a <= b THEN a ELSE b
Max2(a, b) == IF a >= b THEN a ELSE b

\* a <= b and a > b on JavaScript numbers: every comparison with NaN is false.
LessEq(a, b) == a # NaN /\ b # NaN /\ a <= b
Greater(a, b) == a # NaN /\ b # NaN /\ a > b

ONE == 100 * 100
PERCENT == 50 + 50
SCORE_ONE == PERCENT * PERCENT * ONE

----------------------------------------------------------------------------
(* Config *)

FileNames == {"shelter", "school", "health", "hospital"}
ReadOrder == [shelter |-> 1, school |-> 2, health |-> 3, hospital |-> 4]
Kinds == {"shelter", "school", "health"}

\* A variant with weights that sum to 2.
WEIGHTS_DOUBLED == [shelter |-> 120, school |-> 50, health |-> 30]

\* A variant with the weights of the older score.ts.
WEIGHTS_LEGACY == [shelter |-> 50, school |-> 30, health |-> 20]

\* Weights and mixes in percent.
WEIGHTS == [shelter |-> 60, school |-> 25, health |-> 15]
COUNT_SAT_K == 4
MIX_COUNTS == 80
MIX_PROX == PERCENT - MIX_COUNTS

RADIUS_DEFAULT == 1500
TOPN_DEFAULT == 25

\* An optional parameter that the caller left out.
UNDEF == NaN - 1
OrDefault(v, def) == IF v = UNDEF THEN def ELSE v

----------------------------------------------------------------------------
(* Geo helpers *)

R_EARTH == 6371000

\* Metres of great circle per degree of arc: R_EARTH * pi / 180, to the metre.
M_PER_DEG == ((R_EARTH \div 1000) * 31416) \div 1800

\* The angle between two directions that differ by x degrees, in 0..180.
Fold(x) == LET m == Abs(x) % 360 IN IF m > 180 THEN 360 - m ELSE m

\* cos of a multiple of 90 degrees.
CosDeg(lat) ==
    LET m == ((lat % 360) + 360) % 360
    IN  CASE m = 0 -> 1
          [] m = 180 -> 0 - 1
          [] OTHER -> 0

(* The arc, in degrees, whose haversine is                                  *)
(*   a = sin(dphi/2)^2 + cos(phi1) * cos(phi2) * sin(dlambda/2)^2.          *)
(* The model's latitudes are multiples of 90 degrees, where cos is 1, 0 or  *)
(* -1, so that 2 * asin(min(1, sqrt(a))) has a closed form:                 *)
(*   cos*cos =  0:  a = sin(dphi/2)^2                   arc = |dphi|        *)
(*   cos*cos =  1:  dphi = 0, a = sin(dlambda/2)^2      arc = |dlambda|     *)
(*   cos*cos = -1:  dphi = 180, a = cos(dlambda/2)^2    arc = 180-|dlambda| *)
\* A variant that leaves out the squares of the sines: differences keep
\* their sign.
ArcDegSigned(lon1, lat1, lon2, lat2) ==
    IF CosDeg(lat1) * CosDeg(lat2) = 0 THEN lat2 - lat1 ELSE lon2 - lon1

ArcDeg(lon1, lat1, lon2, lat2) ==
    LET cc == CosDeg(lat1) * CosDeg(lat2)
        dphi == Fold(lat2 - lat1)
        dlambda == Fold(lon2 - lon1)
    IN  CASE cc = 0 -> dphi
          [] cc = 1 -> dlambda
          [] OTHER -> 180 - dlambda

\* toRad(d) = (d * Math.PI) / 180 is Infinity or NaN.
toRadOverflows(d) == ~isFinite(d) \/ Abs(d) = HUGE

\* sin and cos of Infinity or NaN are NaN, and NaN goes through Math.sqrt,
\* Math.min and Math.asin.  toRad is applied to both latitudes, to their
\* difference and to the difference of the longitudes.
haversineMeters(lon1, lat1, lon2, lat2) ==
    IF \/ toRadOverflows(lat1) \/ toRadOverflows(lat2)
       \/ ~isFinite(lon1) \/ ~isFinite(lon2)
       \/ (lon1 # lon2 /\ (Abs(lon1) = HUGE \/ Abs(lon2) = HUGE))
    THEN NaN
    ELSE M_PER_DEG * ArcDeg(lon1, lat1, lon2, lat2)

\* Math.max(0, Math.min(1, x)) for x in units of 1/one; NaN stays NaN.
clamp01(x, one) == IF x = NaN THEN NaN ELSE Max2(0, Min2(one, x))

----------------------------------------------------------------------------
(* Lazy data loading and parsing *)

(* A file on disk: exists, parses (JSON.parse succeeds) and features, the   *)
(* sequence raw.features ("<<>>" when raw.features is not an array).        *)
(* A feature: gtype is geometry.type ("none" when there is no geometry),    *)
(* coords tells what geometry.coordinates is: "array" (or another          *)
(* iterable), "null" (null or missing) or "scalar" (a number, a boolean or  *)
(* an object, which cannot be destructured), lon and lat are                *)
(* geometry.coordinates[0] and [1] (NaN stands for every value              *)
(* Number.isFinite rejects), name is (properties.name ?? "").toString() as  *)
(* a sequence of characters, primary is properties.primary.                 *)

IsSpace(c) == c = " "

RECURSIVE TrimStart(_)
TrimStart(s) ==
    IF s # <<>> /\ IsSpace(Head(s)) THEN TrimStart(Tail(s)) ELSE s

RECURSIVE TrimEnd(_)
TrimEnd(s) ==
    IF s # <<>> /\ IsSpace(s[Len(s)]) THEN TrimEnd(SubSeq(s, 1, Len(s) - 1)) ELSE s

\* String.prototype.trim
Trim(s) == TrimEnd(TrimStart(s))

\* The key `${p.name}|${p.lon}|${p.lat}`: the two rightmost fields are
\* numbers, so two keys are equal exactly when the three fields are.
PoiKey(p) == <<p.name, p.lon, p.lat>>

RECURSIVE DedupeFrom(_, _, _)
DedupeFrom(list, seen, out) ==
    IF list = <<>> THEN out
    ELSE LET p == Head(list)
             key == PoiKey(p)
         IN  IF key \in seen
             THEN DedupeFrom(Tail(list), seen, out)
             ELSE DedupeFrom(Tail(list), seen \cup {key}, Append(out, p))

\* A variant that keeps the last of several points with one key.
dedupePoisKeepLast(list) ==
    LET Reverse(q) == [i \in 1..Len(q) |-> q[Len(q) + 1 - i]]
    IN  Reverse(DedupeFrom(Reverse(list), {}, <<>>))

dedupePois(list) == DedupeFrom(list, {}, <<>>)

\* const [lon, lat] = g.coordinates ?? [] throws a TypeError when the
\* coordinates are neither null nor iterable.
FeatureThrows(f) == f.gtype = "Point" /\ f.coords = "scalar"

\* One iteration of the loop over the features: the Poi pushed, if any.
FeaturePoi(f) ==
    IF f.gtype # "Point" THEN <<>>
    ELSE IF f.coords # "array" \/ ~isFinite(f.lon) \/ ~isFinite(f.lat) THEN <<>>
    ELSE IF Trim(f.name) = <<>> THEN <<>>
    ELSE <<[name |-> Trim(f.name), lon |-> f.lon, lat |-> f.lat,
            primary |-> f.primary]>>

RECURSIVE CollectPois(_)
CollectPois(feats) ==
    IF feats = <<>> THEN <<>>
    ELSE FeaturePoi(Head(feats)) \o CollectPois(Tail(feats))

\* readGeoPoints of a file that parses.
readGeoPoints(file) ==
    IF ~file.exists THEN <<>>
    ELSE dedupePois(CollectPois(file.features))

\* JSON.parse throws on a file that exists and is not JSON; the loop throws
\* on a feature whose coordinates cannot be destructured.
ReadThrows(file) ==
    /\ file.exists
    /\ \/ ~file.parses
       \/ \E i \in 1..Len(file.features) : FeatureThrows(file.features[i])

LoadThrows(disk) == \E n \in FileNames : ReadThrows(disk[n])

\* The error ensureLoaded lets through: the files are read in the order
\* shelter, school, health, hospital.
LoadError(disk) ==
    LET first == CHOOSE n \in FileNames :
                    /\ ReadThrows(disk[n])
                    /\ \A m \in FileNames :
                          ReadThrows(disk[m]) => ReadOrder[n] <= ReadOrder[m]
    IN  IF disk[first].parses THEN "TypeError" ELSE "SyntaxError"

\* The Layers object ensureLoaded builds from the four files.
BuildLayers(disk) ==
    LET shelter == readGeoPoints(disk["shelter"])
        school == readGeoPoints(disk["school"])
        healthA == readGeoPoints(disk["health"])
        healthB == readGeoPoints(disk["hospital"])
        health == dedupePois(healthA \o healthB)
    IN  [shelter |-> shelter, school |-> school, health |-> health]

\* ensureLoaded: the catalog it returns, and the cache it leaves.
ensureLoaded(layers, disk) == IF layers # <<>> THEN layers[1] ELSE BuildLayers(disk)

\* A variant that builds the catalog from the files on every call.
CacheAlwaysLoaded(layers, disk) == <<BuildLayers(disk)>>

CacheAfterLoad(layers, disk) == IF layers # <<>> THEN layers ELSE <<BuildLayers(disk)>>

\* The readFileSync calls of one load: a file is read when it exists and no
\* file before it made the load throw.
ReadsOfLoad(disk) ==
    [n \in FileNames |->
        IF /\ disk[n].exists
           /\ \A m \in FileNames : ReadOrder[m] < ReadOrder[n] => ~ReadThrows(disk[m])
        THEN 1 ELSE 0]

\* The read counts after ensureLoaded has run.
ReadsAfterLoad(layers, disk, count) ==
    IF layers # <<>> THEN count
    ELSE [n \in FileNames |-> count[n] + ReadsOfLoad(disk)[n]]

----------------------------------------------------------------------------
(* Core queries *)

withDistances(kind, arr, lon, lat) ==
    [i \in 1..Len(arr) |->
        [name |-> arr[i].name, lon |-> arr[i].lon, lat |-> arr[i].lat,
         primary |-> arr[i].primary,
         distance_m |-> haversineMeters(lon, lat, arr[i].lon, arr[i].lat),
         kind |-> kind]]

\* The comparator (a, b) => a.distance_m - b.distance_m is positive:
\* a sorts after b.  A NaN difference counts as 0.
SortsAfter(a, b) == Greater(a.distance_m, b.distance_m)

\* A variant that puts x before the elements it ties with.
InsertBeforeTies(s, x) ==
    LET before == SelectSeq(s, LAMBDA y : SortsAfter(x, y))
        after == SelectSeq(s, LAMBDA y : ~SortsAfter(x, y))
    IN  before \o <<x>> \o after

\* x put into the sorted sequence s behind every element it does not sort before.
InsertSorted(s, x) ==
    LET before == SelectSeq(s, LAMBDA y : ~SortsAfter(y, x))
        after == SelectSeq(s, LAMBDA y : SortsAfter(y, x))
    IN  before \o <<x>> \o after

\* Array.prototype.sort with that comparator: a stable sort.
RECURSIVE SortByDistance(_)
SortByDistance(s) ==
    IF Len(s) <= 1 THEN s
    ELSE InsertSorted(SortByDistance(SubSeq(s, 1, Len(s) - 1)), s[Len(s)])

\* A variant that compares with the absolute value of the radius.
withinRadiusAbs(sortedByDistance, radiusMeters) ==
    SelectSeq(sortedByDistance, LAMBDA p : LessEq(p.distance_m, Abs(radiusMeters)))

withinRadius(sortedByDistance, radiusMeters) ==
    SelectSeq(sortedByDistance, LAMBDA p : LessEq(p.distance_m, radiusMeters))

\* Array.prototype.slice(0, topN) for topN >= 0.
SliceTop(s, topN) == SubSeq(s, 1, Min2(topN, Len(s)))

\* A variant that sorts the catalog array itself, in place.
LayerSortedInPlace(arr, lon, lat) ==
    LET sorted == SortByDistance(withDistances("shelter", arr, lon, lat))
    IN  [i \in 1..Len(sorted) |->
            [name |-> sorted[i].name, lon |-> sorted[i].lon, lat |-> sorted[i].lat,
             primary |-> sorted[i].primary]]

\* The catalog arrays after a query: withDistances maps them into fresh
\* arrays, and only those are sorted, so the catalog keeps its order.
LayerAfterQuery(arr, lon, lat) == arr

nearbyPois(L, lon, lat, radiusMeters, topN) ==
    LET s == SortByDistance(withDistances("shelter", L.shelter, lon, lat))
        c == SortByDistance(withDistances("school", L.school, lon, lat))
        h == SortByDistance(withDistances("health", L.health, lon, lat))
        shelters == SliceTop(withinRadius(s, radiusMeters), topN)
        schools == SliceTop(withinRadius(c, radiusMeters), topN)
        healths == SliceTop(withinRadius(h, radiusMeters), topN)
    IN  [shelters |-> shelters, schools |-> schools, healths |-> healths,
         all |-> SortByDistance(shelters \o schools \o healths),
         params |-> [lon |-> lon, lat |-> lat, radiusMeters |-> radiusMeters,
                     topN |-> topN]]

----------------------------------------------------------------------------
(* Scoring *)

\* A variant with numerator and constant swapped: K / (n + K).
countNormSwapped(n) == (COUNT_SAT_K * ONE) \div (n + COUNT_SAT_K)

\* countNorm = n / (n + K), in units of 1/ONE.
countNorm(n) == (n * ONE) \div (n + COUNT_SAT_K)

\* The proximity ramp is evaluated on a grid of PROX_GRID steps.
PROX_GRID == 4 * 5

\* Math.pow(k / PROX_GRID, 1.3) in units of 1/ONE, for k = 0..PROX_GRID.
POW13 == <<0, 204, 501, 849, 1234, 1649, 2091, 2554, 3039, 3541, 4061,
           4597, 5148, 5712, 6290, 6880, 7482, 8096, 8720, 9355, 10000>>

\* A variant that leaves out the "1 -": d / radiusMeters.
RampRising(d, radiusMeters) ==
    CASE radiusMeters = 0 /\ d = 0 -> NaN
      [] radiusMeters = 0 /\ d # 0 -> PROX_GRID
      [] radiusMeters > 0 -> (d * PROX_GRID) \div radiusMeters
      [] OTHER -> 0 - ((d * PROX_GRID) \div (0 - radiusMeters))

(* 1 - d / radiusMeters for a finite d >= 0, in units of 1/PROX_GRID,       *)
(* rounded down.  0 / 0 is NaN; d / 0 is Infinity for d > 0, and            *)
(* 1 - Infinity is negative (any negative value stands for it).             *)
Ramp(d, radiusMeters) ==
    CASE radiusMeters = 0 /\ d = 0 -> NaN
      [] radiusMeters = 0 /\ d # 0 -> 0 - 1
      [] radiusMeters > 0 -> ((radiusMeters - d) * PROX_GRID) \div radiusMeters
      [] OTHER -> ((d - radiusMeters) * PROX_GRID) \div (0 - radiusMeters)

\* The arrow function prox of scorePoint, with the radius it closes over.
prox(d, radiusMeters) ==
    IF ~isFinite(d) THEN 0
    ELSE LET raw == clamp01(Ramp(d, radiusMeters), PROX_GRID)
         IN  IF raw = NaN THEN NaN ELSE POW13[raw + 1]

\* weight * (MIX_COUNTS * countNorm + MIX_PROX * proximity), in units of 1/SCORE_ONE.
catScore(weight, cn, px) ==
    IF cn = NaN \/ px = NaN THEN NaN
    ELSE weight * (MIX_COUNTS * cn + MIX_PROX * px)

Sum3(a, b, c) == IF a = NaN \/ b = NaN \/ c = NaN THEN NaN ELSE a + b + c

\* x.toFixed(2): hundredths, rounded half up; "NaN" for NaN.
toFixed2(x) ==
    IF x = NaN THEN NaN ELSE (x + (SCORE_ONE \div 200)) \div (SCORE_ONE \div 100)

\* list[0] ?? null
First(list) == IF list = <<>> THEN <<>> ELSE <<list[1]>>

\* A variant with 0 for a missing nearest.
NearestDistanceZero(nearest) == IF nearest = <<>> THEN 0 ELSE nearest[1].distance_m

\* nearest?.distance_m ?? Infinity
NearestDistance(nearest) == IF nearest = <<>> THEN Infinity ELSE nearest[1].distance_m

\* Every local value of scorePoint at its return, from the value of nearby on.
ScoreLocals(nearby) ==
    LET radiusMeters == nearby.params.radiusMeters
        topN == nearby.params.topN
        cat == [shelters |-> [count |-> Len(nearby.shelters), nearest |-> First(nearby.shelters)],
                schools |-> [count |-> Len(nearby.schools), nearest |-> First(nearby.schools)],
                healths |-> [count |-> Len(nearby.healths), nearest |-> First(nearby.healths)]]
        sNearest == NearestDistance(cat.shelters.nearest)
        cNearest == NearestDistance(cat.schools.nearest)
        hNearest == NearestDistance(cat.healths.nearest)
        sCountNorm == countNorm(cat.shelters.count)
        cCountNorm == countNorm(cat.schools.count)
        hCountNorm == countNorm(cat.healths.count)
        sProx == prox(sNearest, radiusMeters)
        cProx == prox(cNearest, radiusMeters)
        hProx == prox(hNearest, radiusMeters)
        sScore == catScore(weightsObj.shelter, sCountNorm, sProx)
        cScore == catScore(weightsObj.school, cCountNorm, cProx)
        hScore == catScore(weightsObj.health, hCountNorm, hProx)
        sum == Sum3(sScore, cScore, hScore)
        score == clamp01(sum, SCORE_ONE)
    IN  [nearby |-> nearby, cat |-> cat,
         nearestDist |-> [shelter |-> sNearest, school |-> cNearest, health |-> hNearest],
         count |-> [shelter |-> cat.shelters.count, school |-> cat.schools.count,
                    health |-> cat.healths.count],
         countNorm |-> [shelter |-> sCountNorm, school |-> cCountNorm, health |-> hCountNorm],
         prox |-> [shelter |-> sProx, school |-> cProx, health |-> hProx],
         catScore |-> [shelter |-> sScore, school |-> cScore, health |-> hScore],
         sum |-> sum, score |-> score,
         explain |-> <<radiusMeters, cat.shelters.count, cat.schools.count,
                       cat.healths.count, toFixed2(score)>>,
         radiusMeters |-> radiusMeters, topN |-> topN]

\* The _diagnostics of a result: per layer the length of the catalog array
\* and its first three elements.
Diagnostics(L) ==
    [k \in Kinds |-> [features |-> Len(L[k]), samples |-> SliceTop(L[k], 3)]]

\* The ScoreResult built from the locals; diagnostics is its _diagnostics
\* property, <<>> while it has none.
ScoreResult(v, diagnostics) ==
    [shelters |-> v.cat.shelters, schools |-> v.cat.schools, healths |-> v.cat.healths,
     score |-> v.score, explain |-> v.explain,
     params |-> [lon |-> v.nearby.params.lon, lat |-> v.nearby.params.lat,
                 radiusMeters |-> v.radiusMeters, weights |-> weightsObj, topN |-> v.topN],
     diagnostics |-> diagnostics]

(* scorePoint(params) on the catalog L: result is the ScoreResult returned,  *)
(* locals the local values it was computed from.  args holds the caller's   *)
(* lon, lat, radiusMeters and topN, the last two UNDEF when left out, and   *)
(* includeDiagnostics.                                                      *)
scorePoint(L, args) ==
    LET calls == {nearbyPois(L, args.lon, args.lat,
                             OrDefault(args.radiusMeters, RADIUS_DEFAULT),
                             OrDefault(args.topN, TOPN_DEFAULT))}
        diagnostics == IF args.includeDiagnostics THEN <<Diagnostics(L)>> ELSE <<>>
        outs == {[result |-> ScoreResult(ScoreLocals(nearby), diagnostics),
                  locals |-> ScoreLocals(nearby)] : nearby \in calls}
    IN  CHOOSE out \in outs : TRUE

----------------------------------------------------------------------------
(* The files on disk and the callers' arguments *)

MaxFeat == 2

Missing == [exists |-> FALSE, parses |-> FALSE, features |-> <<>>]
Corrupt == [exists |-> TRUE, parses |-> FALSE, features |-> <<>>]
File(feats) == [exists |-> TRUE, parses |-> TRUE, features |-> feats]

Feature(gtype, coords, lon, lat, name, primary) ==
    [gtype |-> gtype, coords |-> coords, lon |-> lon, lat |-> lat, name |-> name,
     primary |-> primary]

Pt(lon, lat, name, primary) == Feature("Point", "array", lon, lat, name, primary)

Letters == <<"a", "b", "c", "d", "e", "f", "g", "h", "i", "j", "k", "l", "m",
             "n", "o", "p", "q", "r", "s", "t", "u", "v", "w", "x", "y", "z">>

\* One more shelter than the default topN, all at longitude 0 on the equator.
Dense == File([i \in 1..(TOPN_DEFAULT + 1) |-> Pt(0, 0, <<"D", Letters[i]>>, "shelter")])

SeqsUpTo(S, n) == UNION {[1..k -> S] : k \in 0..n}

LonGrid == {0, 2}
ShelterFeats == {Pt(lon, 0, <<"A">>, "shelter") : lon \in LonGrid}

ShelterFiles == {Missing} \cup {File(s) : s \in SeqsUpTo(ShelterFeats, MaxFeat)}
SchoolFiles == {Missing, File(<<Pt(2, 0, <<"B">>, "school")>>)}

\* The health and the hospital file, which ensureLoaded merges.
HealthFilePairs ==
    {<<Missing, Missing>>,
     <<Missing, Corrupt>>,
     <<File(<<Pt(0, 0, <<"C">>, "health")>>),
       File(<<Pt(0, 0, <<"C">>, "hospital"), Pt(2, 0, <<" ", "C">>, "health")>>)>>}

\* A file of heterogeneous open data: features with the wrong geometry type,
\* without geometry, without coordinates, with a coordinate that is not a
\* finite number, without a name, with a blank name, with a longitude out
\* of range, and with a number for a name.
Mixed ==
    File(<<Feature("LineString", "array", 0, 0, <<"L">>, "school"),
           Feature("none", "null", NaN, NaN, <<"G">>, "school"),
           Feature("Point", "null", NaN, NaN, <<"N">>, "school"),
           Pt(NaN, 0, <<"F">>, "school"),
           Pt(0, 0, <<>>, "school"),
           Pt(0, 0, <<" ">>, "school"),
           Pt(361, 0, <<"E">>, "school"),
           Pt(0, 0, <<"5">>, "school")>>)

\* A file with a well-formed feature and one whose coordinates are a number.
Broken ==
    File(<<Pt(0, 0, <<"W">>, "shelter"),
           Feature("Point", "scalar", NaN, NaN, <<"S">>, "shelter")>>)

Disks ==
    {[shelter |-> s, school |-> c, health |-> h[1], hospital |-> h[2]] :
        s \in ShelterFiles, c \in SchoolFiles, h \in HealthFilePairs}
    \cup {[shelter |-> Dense, school |-> Missing, health |-> Missing, hospital |-> Missing],
          [shelter |-> Missing, school |-> Mixed, health |-> Missing, hospital |-> Missing],
          [shelter |-> Broken, school |-> Missing, health |-> Missing, hospital |-> Missing]}

\* Query origins <<lon, lat>>: in range; out of range or not finite.
ValidOrigins == {<<0, 0>>, <<1, 0>>}
BadOrigins == {<<200, 0>>, <<0, 180>>, <<NaN, 0>>, <<HUGE, 0>>}
RadiusArgs == {UNDEF, 0 - 1, 0, M_PER_DEG, 2 * M_PER_DEG}
TopNArgs == {UNDEF, 1}

Args(o, r, t) ==
    [lon |-> o[1], lat |-> o[2], radiusMeters |-> r, topN |-> t, includeDiagnostics |-> FALSE]

\* The same call with includeDiagnostics set.
WithDiagnostics(args) == [args EXCEPT !.includeDiagnostics = TRUE]

\* The calls made: every radius and topN from the origins in range, the
\* defaults from the others, and one call that asks for diagnostics.
Calls ==
    {Args(o, r, t) : o \in ValidOrigins, r \in RadiusArgs, t \in TopNArgs}
    \cup {Args(o, UNDEF, UNDEF) : o \in BadOrigins}
    \cup {WithDiagnostics(Args(<<0, 0>>, 2 * M_PER_DEG, UNDEF))}

\* The calls whose response the observer may keep.
Watched(params) ==
    /\ <<params.lon, params.lat>> = <<1, 0>>
    /\ params.radiusMeters = M_PER_DEG

----------------------------------------------------------------------------
(* The state machine *)

\* The cache of score.ts before any layer is read.
NoCache == [k \in Kinds |-> <<>>]

\* No file has been read.  The loads that read files are counted up to MaxReads.
NoReads == [n \in FileNames |-> 0]
MaxReads == 2
CanLoad == LAYERS # <<>> \/ \A n \in FileNames : reads[n] < MaxReads

Init ==
    /\ files \in Disks
    /\ LAYERS = <<>>
    /\ response = [kind |-> "none"]
    /\ locals = <<>>
    /\ probe = <<>>
    /\ cache = NoCache
    /\ reads = NoReads
    /\ weightsObj = WEIGHTS
    /\ mcp = <<>>
    /\ pager = <<>>

\* The observer's note after a call with the arguments args.
Noted(note, args) ==
    IF note = <<>> THEN note
    ELSE LET p == note[1].seen.params
             same == /\ args.lon = p.lon
                     /\ args.lat = p.lat
                     /\ OrDefault(args.radiusMeters, RADIUS_DEFAULT) = p.radiusMeters
         IN  <<[seen |-> note[1].seen, between |-> note[1].between \/ ~same]>>

\* The cache after a query from (lon, lat).
CacheAfterQuery(layers, lon, lat) ==
    IF layers = <<>> THEN layers
    ELSE <<[shelter |-> LayerAfterQuery(layers[1].shelter, lon, lat),
            school |-> LayerAfterQuery(layers[1].school, lon, lat),
            health |-> LayerAfterQuery(layers[1].health, lon, lat)]>>

\* A call of the exported scorePoint(params).
ScorePoint ==
    \E args \in Calls :
        /\ CanLoad
        /\ reads' = ReadsAfterLoad(LAYERS, files, reads)
        /\ UNCHANGED <<files, cache, weightsObj, mcp, pager>>
        /\ IF LAYERS = <<>> /\ LoadThrows(files)
           THEN /\ response' = [kind |-> "throw", error |-> LoadError(files)]
                /\ locals' = <<>>
                /\ UNCHANGED <<LAYERS, probe>>
           ELSE LET L == ensureLoaded(LAYERS, files) IN
                \E out \in {scorePoint(L, args)} :
                /\ response' = [kind |-> "score", value |-> out.result]
                /\ locals' = <<out.locals>>
                /\ LAYERS' = CacheAfterQuery(CacheAfterLoad(LAYERS, files), args.lon, args.lat)
                /\ probe' = Noted(probe, args)

\* A call of the exported nearbyPois(lon, lat, radiusMeters, topN).
NearbyPois ==
    \E args \in Calls :
        /\ CanLoad
        /\ reads' = ReadsAfterLoad(LAYERS, files, reads)
        /\ UNCHANGED <<files, cache, weightsObj, mcp, pager>>
        /\ IF LAYERS = <<>> /\ LoadThrows(files)
           THEN /\ response' = [kind |-> "throw", error |-> LoadError(files)]
                /\ locals' = <<>>
                /\ UNCHANGED <<LAYERS, probe>>
           ELSE LET L == ensureLoaded(LAYERS, files) IN
                /\ response' = [kind |-> "nearby",
                                value |-> nearbyPois(L, args.lon, args.lat,
                                                     OrDefault(args.radiusMeters, RADIUS_DEFAULT),
                                                     OrDefault(args.topN, TOPN_DEFAULT))]
                /\ locals' = <<>>
                /\ LAYERS' = CacheAfterQuery(CacheAfterLoad(LAYERS, files), args.lon, args.lat)
                /\ probe' = Noted(probe, args)

\* An observer keeps the scorePoint response it has just seen.
Remember ==
    /\ response.kind = "score"
    /\ Watched(response.value.params)
    /\ probe = <<>>
    /\ probe' = <<[seen |-> response.value, between |-> FALSE]>>
    /\ UNCHANGED <<files, LAYERS, response, locals, cache, reads, weightsObj, mcp, pager>>

Next == ScorePoint \/ NearbyPois \/ Remember

Spec == Init /\ [][Next]_vars

----------------------------------------------------------------------------
(* The catalog while the files of data/ change under the running process *)

\* A call of the exported layerCounts().
LayerCounts ==
    /\ CanLoad
    /\ reads' = ReadsAfterLoad(LAYERS, files, reads)
    /\ locals' = <<>>
    /\ UNCHANGED <<files, probe, cache, weightsObj, mcp, pager>>
    /\ IF LAYERS = <<>> /\ LoadThrows(files)
       THEN /\ response' = [kind |-> "throw", error |-> LoadError(files)]
            /\ UNCHANGED LAYERS
       ELSE LET L == ensureLoaded(LAYERS, files) IN
            /\ response' = [kind |-> "counts",
                            value |-> [shelter |-> Len(L.shelter), school |-> Len(L.school),
                                       health |-> Len(L.health)]]
            /\ LAYERS' = CacheAfterLoad(LAYERS, files)

\* The data directory in its successive states: empty, with one shelter,
\* with the shelter moved and a school added, with a shelter file that
\* makes the load throw.
DiskSeries ==
    {[shelter |-> Missing, school |-> Missing, health |-> Missing, hospital |-> Missing],
     [shelter |-> File(<<Pt(0, 0, <<"A">>, "shelter")>>), school |-> Missing,
      health |-> Missing, hospital |-> Missing],
     [shelter |-> File(<<Pt(2, 0, <<"A">>, "shelter")>>),
      school |-> File(<<Pt(2, 0, <<"B">>, "school")>>),
      health |-> Missing, hospital |-> Missing],
     [shelter |-> Broken, school |-> Missing, health |-> Missing, hospital |-> Missing]}

\* The files are rewritten while the process runs.
Rewrite ==
    /\ files' \in DiskSeries \ {files}
    /\ UNCHANGED <<LAYERS, response, locals, probe, cache, reads, weightsObj, mcp, pager>>

InitDisk ==
    /\ files \in DiskSeries
    /\ LAYERS = <<>>
    /\ response = [kind |-> "none"]
    /\ locals = <<>>
    /\ probe = <<>>
    /\ cache = NoCache
    /\ reads = NoReads
    /\ weightsObj = WEIGHTS
    /\ mcp = <<>>
    /\ pager = <<>>

NextDisk == ScorePoint \/ NearbyPois \/ LayerCounts \/ Rewrite

SpecDisk == InitDisk /\ [][NextDisk]_vars

----------------------------------------------------------------------------
(* A caller in the same process that writes to the result scorePoint gave   *)
(* it.  A ScoreResult holds references: params.weights is the object        *)
(* WEIGHTS itself, the elements of _diagnostics.x.samples are the objects   *)
(* of the catalog arrays (slice copies the array, not its elements), and    *)
(* the count/nearest entries and the nearest points are objects made for    *)
(* the call.  A write through a reference changes the object it refers to.  *)

SharedDisks ==
    {[shelter |-> File(<<Pt(0, 0, <<"A">>, "shelter")>>), school |-> Missing,
      health |-> Missing, hospital |-> Missing],
     [shelter |-> File(<<Pt(0, 0, <<"A">>, "shelter"), Pt(2, 0, <<"A">>, "shelter")>>),
      school |-> File(<<Pt(2, 0, <<"B">>, "school")>>),
      health |-> Missing, hospital |-> Missing]}

\* The values the caller writes.
WrittenWeights == {0}
WrittenNames == {<<"X">>}

\* result.params.weights[k] = v
WriteWeights ==
    /\ response.kind = "score"
    /\ \E k \in Kinds, v \in WrittenWeights :
          /\ weightsObj' = [weightsObj EXCEPT ![k] = v]
          /\ response' = [response EXCEPT !.value.params.weights = weightsObj']
    /\ UNCHANGED <<files, LAYERS, locals, probe, cache, reads, mcp, pager>>

\* result._diagnostics[k].samples[i].name = name
WriteSample ==
    /\ response.kind = "score"
    /\ response.value.diagnostics # <<>>
    /\ \E k \in Kinds :
         \E i \in 1..Len(response.value.diagnostics[1][k].samples), name \in WrittenNames :
            /\ LAYERS' = <<[LAYERS[1] EXCEPT ![k][i].name = name]>>
            /\ response' = [response EXCEPT
                               !.value.diagnostics[1][k].samples[i].name = name]
    /\ UNCHANGED <<files, locals, probe, cache, reads, weightsObj, mcp, pager>>

\* result.shelters.nearest.name = name
WriteNearest ==
    /\ response.kind = "score"
    /\ response.value.shelters.nearest # <<>>
    /\ \E name \in WrittenNames :
          response' = [response EXCEPT !.value.shelters.nearest[1].name = name]
    /\ UNCHANGED <<files, LAYERS, locals, probe, cache, reads, weightsObj, mcp, pager>>

InitShared ==
    /\ files \in SharedDisks
    /\ LAYERS = <<>>
    /\ response = [kind |-> "none"]
    /\ locals = <<>>
    /\ probe = <<>>
    /\ cache = NoCache
    /\ reads = NoReads
    /\ weightsObj = WEIGHTS
    /\ mcp = <<>>
    /\ pager = <<>>

NextShared == ScorePoint \/ WriteWeights \/ WriteSample \/ WriteNearest

SpecShared == InitShared /\ [][NextShared]_vars

----------------------------------------------------------------------------
(* The agent: GET /ai/explain (agent/src/server.ts) and the score_point    *)
(* tool of the MCP server that it calls.                                    *)
(*                                                                          *)
(* A text is a sequence of strings: the characters of a text that Gemini   *)
(* wrote, the words and figures of a built-in text.                         *)

\* null in a JSON document, where a number is expected.
JSON_NULL == UNDEF - 1

\* JSON.parse(JSON.stringify(x)) of a number: NaN and Infinity become null.
JsonNumber(x) == IF isFinite(x) THEN x ELSE JSON_NULL

\* Number(v ?? 0) of a number out of a JSON document.
NumberOr0(v) == IF v = JSON_NULL THEN 0 ELSE v

\* The score_point tool: the object that JSON.parse makes of the text it
\* returns.  suffix is what is appended to the text of explain later on,
\* and enrichment the _enrichment property, <<>> while there is none.
scorePointTool(L, lon, lat, radiusMeters) ==
    LET outs == {scorePoint(L, Args(<<lon, lat>>, radiusMeters, UNDEF))}
        parsed == {[shelters |-> out.result.shelters,
                    schools |-> out.result.schools,
                    healths |-> out.result.healths,
                    score |-> JsonNumber(out.result.score),
                    explain |-> [base |-> out.result.explain, suffix |-> <<>>],
                    params |-> out.result.params,
                    enrichment |-> <<>>] : out \in outs}
    IN  CHOOSE p \in parsed : TRUE

\* num of a query parameter: <<>> is null.  A parameter that is missing
\* (UNDEF) or does not read as a finite number gives null.
num(v) == IF v = UNDEF \/ ~isFinite(v) THEN <<>> ELSE <<v>>

AGENT_RADIUS_DEFAULT == 1500

\* fmtDist of an optional distance in metres.
fmtDist(m) ==
    IF m = <<>> \/ ~isFinite(m[1]) THEN <<"unknown">>
    ELSE IF m[1] < 1000 THEN <<ToString(m[1]), "m">>
    ELSE <<ToString((m[1] + 5) \div 10), "km/100">>

\* The haversine of server.ts, which applies asin to the square root as it is.
haversineMetersAgent(lon1, lat1, lon2, lat2) == haversineMeters(lon1, lat1, lon2, lat2)

\* bucket.nearest?.distance_m
NearestDistanceOf(bucket) ==
    IF bucket.nearest = <<>> THEN <<>> ELSE <<bucket.nearest[1].distance_m>>

\* The built-in explanation of a score result in one language: the lines
\* of fallbackExplain and fallbackExplainJa, which differ in their wording.
FallbackLines(sr, lang) ==
    LET s01 == clamp01(NumberOr0(sr.score), SCORE_ONE)
        missing == (IF sr.shelters.count = 0 THEN <<"shelters">> ELSE <<>>)
                   \o (IF sr.healths.count = 0 THEN <<"health">> ELSE <<>>)
    IN  <<lang, "score", ToString(toFixed2(s01))>>
        \o (IF missing # <<>> THEN <<"none">> \o missing ELSE <<>>)
        \o (IF sr.schools.count > 0
            THEN <<"schools", ToString(sr.schools.count)>>
                 \o fmtDist(NearestDistanceOf(sr.schools))
            ELSE <<>>)
        \o (IF sr.shelters.count = 0 /\ sr.shelters.nearest # <<>>
            THEN <<"shelter outside">> \o fmtDist(NearestDistanceOf(sr.shelters))
            ELSE <<>>)
        \o (IF sr.healths.count = 0 /\ sr.healths.nearest # <<>>
            THEN <<"health outside">> \o fmtDist(NearestDistanceOf(sr.healths))
            ELSE <<>>)
        \o <<"scale">>

fallbackExplain(sr) == FallbackLines(sr, "en")
fallbackExplainJa(sr) == FallbackLines(sr, "ja")

(* The Overpass request.  Its outcome is "reject" (fetch throws), "status"  *)
(* (a response that is not OK) or "ok"; elements is json.elements ?? [] of  *)
(* the body.  An element: pos is its center, or its own lat and lon, <<>>   *)
(* when it has neither; name is the name found in its tags or "(unnamed)".  *)

\* A variant that does not look at the status of the response.
fetchOSMIgnoresStatus(osm) == osm.kind = "reject"

\* fetchOSM throws.
fetchOSMThrows(osm) == osm.kind # "ok"

OsmClass(e) ==
    IF e.amenity \in {"school", "kindergarten", "college", "university"} THEN "schools"
    ELSE IF e.amenity \in {"hospital", "clinic", "doctors"} THEN "healths"
    ELSE IF e.amenity = "shelter" \/ e.emergency = "assembly_point" THEN "shelters"
    ELSE "none"

OsmFeat(e, lon, lat) ==
    [name |-> e.name, lon |-> e.pos[1].lon, lat |-> e.pos[1].lat,
     distance_m |-> haversineMetersAgent(lon, lat, e.pos[1].lon, e.pos[1].lat)]

OsmBucket(els, lon, lat, class) ==
    LET mine == SelectSeq(els, LAMBDA e : e.pos # <<>> /\ OsmClass(e) = class)
    IN  SortByDistance([i \in 1..Len(mine) |-> OsmFeat(mine[i], lon, lat)])

classifyOSM(els, lon, lat) ==
    [schools |-> OsmBucket(els, lon, lat, "schools"),
     healths |-> OsmBucket(els, lon, lat, "healths"),
     shelters |-> OsmBucket(els, lon, lat, "shelters")]

\* A variant that takes what OSM has for a bucket whether it is empty or not.
OsmUsedAlways(bucket, found) == found # <<>>

\* A bucket of the score result is replaced when it is empty and OSM has
\* something for it.
OsmUsed(bucket, found) == bucket.count = 0 /\ found # <<>>

EnrichBucket(bucket, found, kind) ==
    IF OsmUsed(bucket, found)
    THEN [count |-> Len(found),
          nearest |-> <<[name |-> found[1].name, lon |-> found[1].lon,
                         lat |-> found[1].lat, distance_m |-> found[1].distance_m,
                         kind |-> kind]>>]
    ELSE bucket

\* enrichWithOSM(scoreResult, osm, weights): the scoreResult it leaves.
enrichWithOSM(scoreResult, osm, weights) ==
    LET shelters == EnrichBucket(scoreResult.shelters, osm.shelters, "shelter")
        schools == EnrichBucket(scoreResult.schools, osm.schools, "school")
        healths == EnrichBucket(scoreResult.healths, osm.healths, "health")
        used == (IF OsmUsed(scoreResult.shelters, osm.shelters) THEN <<"shelters">> ELSE <<>>)
                \o (IF OsmUsed(scoreResult.schools, osm.schools) THEN <<"schools">> ELSE <<>>)
                \o (IF OsmUsed(scoreResult.healths, osm.healths) THEN <<"health">> ELSE <<>>)
        s == (IF shelters.count > 0 THEN weights.shelter ELSE 0)
             + (IF schools.count > 0 THEN weights.school ELSE 0)
             + (IF healths.count > 0 THEN weights.health ELSE 0)
    IN  IF used = <<>> THEN scoreResult
        ELSE [shelters |-> shelters, schools |-> schools, healths |-> healths,
              score |-> Max2(NumberOr0(scoreResult.score),
                             Min2(SCORE_ONE, s * (SCORE_ONE \div PERCENT))),
              explain |-> [base |-> scoreResult.explain.base, suffix |-> used],
              params |-> scoreResult.params,
              enrichment |-> <<[source |-> "OSM", used |-> used]>>]

\* Step 2 of the handler: the scoreResult after the OSM enrichment.
AfterOsm(scoreResult, lon, lat, noOSM, osm) ==
    LET needs == \/ scoreResult.shelters.count = 0
                 \/ scoreResult.schools.count = 0
                 \/ scoreResult.healths.count = 0
    IN  IF noOSM \/ ~needs THEN scoreResult
        ELSE IF fetchOSMThrows(osm) THEN scoreResult
        ELSE enrichWithOSM(scoreResult, classifyOSM(osm.elements, lon, lat),
                           scoreResult.params.weights)

(* The Gemini call.  key tells whether an API key is set; kind is "throws"  *)
(* (the call throws), "notjson" (JSON.parse of the reply throws) or "json"; *)
(* en and ja are the fields of the reply, <<>> when the field is missing    *)
(* or null, <<t>> with t the text t.toString() otherwise.                   *)

\* A variant that takes a missing field of the reply for an empty text.
ReplyFieldOrEmpty(field, fallback) == IF field = <<>> THEN <<>> ELSE Trim(field[1])

\* (j?.en ?? explanation.en).toString().trim()
ReplyField(field, fallback) == Trim(IF field = <<>> THEN fallback ELSE field[1])

\* Step 3 of the handler: the explanation sent.
Explanation(scoreResult, gemini) ==
    LET fallback == [en |-> fallbackExplain(scoreResult),
                     ja |-> fallbackExplainJa(scoreResult)]
    IN  IF ~gemini.key \/ gemini.kind # "json" THEN fallback
        ELSE [en |-> ReplyField(gemini.en, fallback.en),
              ja |-> ReplyField(gemini.ja, fallback.ja)]

\* The requests made and what the services answer.
Query(lon, lat, radius, no_osm) ==
    [lon |-> lon, lat |-> lat, radius |-> radius, no_osm |-> no_osm]

Queries ==
    {Query(0, 0, UNDEF, FALSE), Query(0, 0, UNDEF, TRUE),
     Query(1, 0, M_PER_DEG, FALSE), Query(0, 0, 0, FALSE),
     Query(UNDEF, 0, UNDEF, FALSE), Query(0, NaN, UNDEF, FALSE)}

Element(pos, name, amenity, emergency) ==
    [pos |-> pos, name |-> name, amenity |-> amenity, emergency |-> emergency]

At(lon, lat) == <<[lon |-> lon, lat |-> lat]>>

ElementLists ==
    {<<>>,
     <<Element(At(0, 0), "P", "none", "assembly_point"),
       Element(At(1, 0), "Q", "school", "none")>>,
     <<Element(<<>>, "R", "clinic", "none"),
       Element(At(0, 0), "(unnamed)", "cafe", "none"),
       Element(At(2, 0), "T", "hospital", "none"),
       Element(At(1, 0), "U", "doctors", "none")>>}

OsmOutcomes ==
    {[kind |-> "reject", elements |-> <<>>]}
    \cup {[kind |-> k, elements |-> els] : k \in {"status", "ok"}, els \in ElementLists}

GeminiTexts == {<<"G">>, <<" ", "g", " ">>}

GeminiOutcomes ==
    {[key |-> FALSE, kind |-> "json", en |-> <<>>, ja |-> <<>>],
     [key |-> TRUE, kind |-> "throws", en |-> <<>>, ja |-> <<>>],
     [key |-> TRUE, kind |-> "notjson", en |-> <<>>, ja |-> <<>>],
     [key |-> TRUE, kind |-> "json", en |-> <<>>, ja |-> <<>>],
     [key |-> TRUE, kind |-> "json", en |-> <<>>, ja |-> <<<<"J">>>>],
     [key |-> TRUE, kind |-> "json", en |-> <<<<>>>>, ja |-> <<<<"J">>>>]}
    \cup {[key |-> TRUE, kind |-> "json", en |-> <<t>>, ja |-> <<<<"J">>>>] : t \in GeminiTexts}
    \cup {[key |-> TRUE, kind |-> "json", en |-> e, ja |-> <<>>] : e \in {<<>>, <<<<"G">>>>}}

\* The disks under the MCP server when the agent is used.
AgentDisks ==
    {[shelter |-> Missing, school |-> Missing, health |-> Missing, hospital |-> Missing],
     [shelter |-> File(<<Pt(0, 0, <<"A">>, "shelter")>>), school |-> Missing,
      health |-> Missing, hospital |-> Missing],
     [shelter |-> File(<<Pt(0, 0, <<"A">>, "shelter")>>),
      school |-> File(<<Pt(2, 0, <<"B">>, "school")>>),
      health |-> File(<<Pt(0, 0, <<"C">>, "health")>>), hospital |-> Missing]}

InitAgent ==
    /\ files \in AgentDisks
    /\ LAYERS = <<>>
    /\ response = [kind |-> "none"]
    /\ locals = <<>>
    /\ probe = <<>>
    /\ cache = NoCache
    /\ reads = NoReads
    /\ weightsObj = WEIGHTS
    /\ mcp = <<>>
    /\ pager = <<>>

\* What the handler computes once it has the tool's answer.
Explained(toolResult, lon, lat, noOSM, osm, gemini) ==
    LET enriched == {AfterOsm(toolResult, lon, lat, noOSM, osm)}
        bodies == {[scoreResult |-> sr, explanation |-> Explanation(sr, gemini)] :
                       sr \in enriched}
    IN  CHOOSE b \in bodies : TRUE

(* The handler of GET /ai/explain for one request, from the parsing of its  *)
(* query to its response, but for the module mcpClient.ts.  mcpUp tells     *)
(* whether ensureMcp and the tool call succeed.                             *)
Handler(query, osm, gemini, mcpUp) ==
    LET lon == num(query.lon)
        lat == num(query.lat)
        radiusMeters == IF num(query.radius) = <<>> THEN AGENT_RADIUS_DEFAULT
                        ELSE num(query.radius)[1]
    IN  IF lon = <<>> \/ lat = <<>>
        THEN /\ response' = [kind |-> "http", status |-> 400,
                             body |-> [error |-> "lon and lat are required numbers"]]
             /\ locals' = <<>>
             /\ UNCHANGED <<files, LAYERS, probe, cache, reads, weightsObj, pager>>
        ELSE IF ~mcpUp \/ (LAYERS = <<>> /\ LoadThrows(files))
        THEN /\ response' = [kind |-> "http", status |-> 500,
                             body |-> [error |-> "Error"]]
             /\ locals' = <<>>
             /\ reads' = IF mcpUp THEN ReadsAfterLoad(LAYERS, files, reads) ELSE reads
             /\ UNCHANGED <<files, LAYERS, probe, cache, weightsObj, pager>>
        ELSE \E toolResult \in {scorePointTool(ensureLoaded(LAYERS, files),
                                               lon[1], lat[1], radiusMeters)} :
             \E body \in {Explained(toolResult, lon[1], lat[1], query.no_osm, osm, gemini)} :
             /\ response' = [kind |-> "http", status |-> 200, body |-> body]
             /\ locals' = <<[toolResult |-> toolResult, query |-> query,
                             osm |-> osm, gemini |-> gemini]>>
             /\ LAYERS' = CacheAfterQuery(CacheAfterLoad(LAYERS, files), lon[1], lat[1])
             /\ reads' = ReadsAfterLoad(LAYERS, files, reads)
             /\ UNCHANGED <<files, probe, cache, weightsObj, pager>>

\* One GET /ai/explain request, from its arrival to its response.
AiExplain ==
    \E query \in Queries, osm \in OsmOutcomes, gemini \in GeminiOutcomes, mcpUp \in BOOLEAN :
        /\ Handler(query, osm, gemini, mcpUp)
        /\ UNCHANGED mcp

NextAgent == AiExplain

SpecAgent == InitAgent /\ [][NextAgent]_vars

----------------------------------------------------------------------------
(* The agent's MCP client (agent/src/mcpClient.ts) under several requests.  *)
(*                                                                          *)
(* Node runs a handler without interruption up to its next await, so a      *)
(* request is handled in two steps: from its arrival to await ensureMcp(),  *)
(* and from the settling of that promise to its response.  mcp holds        *)
(*   singleton : the state of singletonPromise: "null", "pending",          *)
(*               "fulfilled" or "rejected";                                 *)
(*   error     : the error it was rejected with, "none" while there is none;*)
(*   client    : the attempt whose Client it was fulfilled with, 0 if none; *)
(*   attempts  : how often the body of the promise was started;             *)
(*   spawned   : how many child processes were started;                     *)
(*   reqs      : the requests so far, each with its query, what it found    *)
(*               singletonPromise to be on arrival, where it is (pc), the   *)
(*               status it answered, the client and the error awaited.      *)

MaxReq == 3

McpStart ==
    [singleton |-> "null", error |-> "none", client |-> 0, attempts |-> 0,
     spawned |-> 0, reqs |-> <<>>]

\* A variant that takes the promise for set only once it has a client.
HasClient(m) == m.singleton = "fulfilled"

\* if (singletonPromise)
HasSingleton(m) == m.singleton # "null"

\* A variant that clears singletonPromise when the attempt fails.
RejectedAndCleared(m, error) == [m EXCEPT !.singleton = "null", !.error = error]

\* The promise is rejected with error and stays in singletonPromise.
Rejected(m, error) == [m EXCEPT !.singleton = "rejected", !.error = error]

\* ensureMcp() up to its return: pkg tells whether package.json exists.  The
\* body of the promise runs up to await mcp.connect(transport), which
\* starts the child process.
ensureMcp(m, pkg) ==
    IF HasSingleton(m) THEN m
    ELSE IF ~pkg
    THEN Rejected([m EXCEPT !.attempts = @ + 1], "nopkg")
    ELSE [m EXCEPT !.singleton = "pending", !.attempts = @ + 1, !.spawned = @ + 1]

Request(query, found, pc, status) ==
    [query |-> query, found |-> found, pc |-> pc, status |-> status,
     client |-> 0, error |-> "none"]

\* The requests made, and the answers of the services behind the handler.
McpQueries == {Query(0, 0, UNDEF, TRUE), Query(UNDEF, 0, UNDEF, TRUE)}
McpOsm == [kind |-> "reject", elements |-> <<>>]
McpGemini == [key |-> FALSE, kind |-> "json", en |-> <<>>, ja |-> <<>>]

QueryValid(query) == num(query.lon) # <<>> /\ num(query.lat) # <<>>

\* A request arrives and is handled up to its first await: it is answered
\* 400, or it calls ensureMcp and awaits the promise.
Arrive ==
    /\ Len(mcp.reqs) < MaxReq
    /\ \E query \in McpQueries, pkg \in BOOLEAN :
          IF ~QueryValid(query)
          THEN /\ Handler(query, McpOsm, McpGemini, FALSE)
               /\ mcp' = [mcp EXCEPT !.reqs = Append(@, Request(query, mcp.singleton,
                                                                "done", 400))]
          ELSE /\ mcp' = [ensureMcp(mcp, pkg) EXCEPT
                             !.reqs = Append(@, Request(query, mcp.singleton,
                                                        "awaiting", 0))]
               /\ UNCHANGED <<files, LAYERS, response, locals, probe, cache, reads,
                              weightsObj, pager>>

\* mcp.connect(transport) resolves: the promise is fulfilled with the client.
Connected ==
    /\ mcp.singleton = "pending"
    /\ mcp' = [mcp EXCEPT !.singleton = "fulfilled", !.client = mcp.attempts]
    /\ UNCHANGED <<files, LAYERS, response, locals, probe, cache, reads, weightsObj, pager>>

\* mcp.connect(transport) rejects.
ConnectFailed ==
    /\ mcp.singleton = "pending"
    /\ mcp' = Rejected(mcp, "connect")
    /\ UNCHANGED <<files, LAYERS, response, locals, probe, cache, reads, weightsObj, pager>>

\* A request goes on after await ensureMcp(): to the catch when the promise
\* was rejected, else through the rest of the handler with the client.
Resume ==
    \E i \in 1..Len(mcp.reqs) :
        /\ mcp.reqs[i].pc = "awaiting"
        /\ \/ /\ mcp.singleton = "rejected"
              /\ response' = [kind |-> "http", status |-> 500, body |-> [error |-> mcp.error]]
              /\ locals' = <<>>
              /\ mcp' = [mcp EXCEPT !.reqs[i].pc = "done", !.reqs[i].status = 500,
                                    !.reqs[i].error = mcp.error]
              /\ UNCHANGED <<files, LAYERS, probe, cache, reads, weightsObj, pager>>
           \/ /\ mcp.singleton = "fulfilled"
              /\ \E toolUp \in BOOLEAN :
                    Handler(mcp.reqs[i].query, McpOsm, McpGemini, toolUp)
              /\ mcp' = [mcp EXCEPT !.reqs[i].pc = "done",
                                    !.reqs[i].status = response'.status,
                                    !.reqs[i].client = mcp.client]

InitMcp ==
    /\ files \in AgentDisks
    /\ LAYERS = <<>>
    /\ response = [kind |-> "none"]
    /\ locals = <<>>
    /\ probe = <<>>
    /\ cache = NoCache
    /\ reads = NoReads
    /\ weightsObj = WEIGHTS
    /\ mcp = McpStart
    /\ pager = <<>>

NextMcp == Arrive \/ Connected \/ ConnectFailed \/ Resume

SpecMcp == InitMcp /\ [][NextMcp]_vars

----------------------------------------------------------------------------
(* pageAll of the dataset listing script (scripts/clip-geojson-bbox.mjs,    *)
(* from "scripts/mlit-test.mjs" on).  One step is one pass of the inner     *)
(* loop: a gql call with one candidate query shape and what follows it up   *)
(* to the next call, the return or the throw.  pager holds                  *)
(*   pc       : "idle", "loop" (before a gql call), "returned" or "thrown"; *)
(*   maxPages : the constant maxPages;                                      *)
(*   page     : the loop variable page while in the loop, and the number of *)
(*              page iterations made once pageAll has ended;                *)
(*   cand     : the position of the candidate tried next;                   *)
(*   acc      : the number of items in acc;                                 *)
(*   after    : the cursor, <<>> for null;                                  *)
(*   used     : the name of the first shape that worked, <<>> for null;     *)
(*   ok       : the number of gql calls that succeeded;                     *)
(*   last     : what the last gql call gave: "none", "fail" (gql threw or   *)
(*              extract found no items), "more" (hasNextPage) or "last".    *)

\* The names of the four candidate shapes of either mode.
Candidates ==
    <<"nodes (outer+inner args)", "edges (outer+inner args)",
      "nodes (inner no args)", "edges (inner no args)">>

MAX_PAGES_DEFAULT == 10

\* Number(args.maxPages || 10): arg is UNDEF when the option is missing or
\* empty, NaN when its text is no number, else the number given.
maxPagesOf(arg) == IF arg = UNDEF THEN MAX_PAGES_DEFAULT ELSE arg

MaxPagesArgs == {UNDEF, NaN, 0 - 1, 0, 1, 2, 3}

\* A variant that lets one more page through: page - 1 <= maxPages.
LoopGoesOnOneMore(page, maxPages) == LessEq(page - 1, maxPages)

\* page <= maxPages
LoopGoesOn(page, maxPages) == LessEq(page, maxPages)

PagerIdle(arg) ==
    [pc |-> "idle", maxPages |-> maxPagesOf(arg), page |-> 0, cand |-> 0, acc |-> 0,
     after |-> <<>>, used |-> <<>>, ok |-> 0, last |-> "none"]

\* What a gql call and extract give: a failure, or a page of items with
\* its pageInfo.
GqlOutcomes ==
    {[kind |-> "fail", items |-> 0, hasNextPage |-> FALSE, endCursor |-> <<>>]}
    \cup {[kind |-> "ok", items |-> n, hasNextPage |-> h, endCursor |-> c] :
             n \in 0..1, h \in BOOLEAN, c \in {<<>>, <<"c">>}}

\* The catch of the inner loop: the next candidate, or the throw after the
\* loop when there is none.
AfterFailure(p) ==
    IF p.cand < Len(Candidates)
    THEN [p EXCEPT !.cand = @ + 1, !.last = "fail"]
    ELSE [p EXCEPT !.pc = "thrown", !.last = "fail"]

\* The try block after a call that succeeded: the return on the last page,
\* else the break and the head of the outer loop.
AfterSuccess(p, out) ==
    LET q == [p EXCEPT !.used = IF @ = <<>> THEN <<Candidates[p.cand]>> ELSE @,
                       !.acc = @ + out.items,
                       !.after = out.endCursor,
                       !.ok = @ + 1,
                       !.last = IF out.hasNextPage THEN "more" ELSE "last"]
    IN  IF ~out.hasNextPage THEN [q EXCEPT !.pc = "returned"]
        ELSE IF LoopGoesOn(p.page + 1, p.maxPages)
        THEN [q EXCEPT !.page = @ + 1, !.cand = 1]
        ELSE [q EXCEPT !.pc = "returned"]

\* pageAll is called: it runs up to its first gql call, or returns at once
\* when the loop is not entered.
PageAllStart ==
    /\ pager.pc = "idle"
    /\ pager' = IF LoopGoesOn(1, pager.maxPages)
                THEN [pager EXCEPT !.pc = "loop", !.page = 1, !.cand = 1]
                ELSE [pager EXCEPT !.pc = "returned"]
    /\ UNCHANGED <<files, LAYERS, response, locals, probe, cache, reads, weightsObj, mcp>>

\* One gql call is answered.
Gql ==
    /\ pager.pc = "loop"
    /\ \E out \in GqlOutcomes :
          pager' = IF out.kind = "fail" THEN AfterFailure(pager)
                   ELSE AfterSuccess(pager, out)
    /\ UNCHANGED <<files, LAYERS, response, locals, probe, cache, reads, weightsObj, mcp>>

InitPager ==
    /\ files = [n \in FileNames |-> Missing]
    /\ LAYERS = <<>>
    /\ response = [kind |-> "none"]
    /\ locals = <<>>
    /\ probe = <<>>
    /\ cache = NoCache
    /\ reads = NoReads
    /\ weightsObj = WEIGHTS
    /\ mcp = <<>>
    /\ pager \in {PagerIdle(arg) : arg \in MaxPagesArgs}

NextPager == PageAllStart \/ Gql

SpecPager == InitPager /\ [][NextPager]_vars

----------------------------------------------------------------------------
(* The older library src/lib/score.ts: its reader of the GeoJSON files      *)

\* One iteration of the loop of readPoints: the POI pushed, if any.  The
\* name is taken as it is.
ReadPointsFeature(f) ==
    IF f.gtype # "Point" THEN <<>>
    ELSE IF f.coords # "array" \/ ~isFinite(f.lon) \/ ~isFinite(f.lat) THEN <<>>
    ELSE <<[name |-> f.name, lon |-> f.lon, lat |-> f.lat, primary |-> f.primary]>>

RECURSIVE ReadPointsCollect(_)
ReadPointsCollect(feats) ==
    IF feats = <<>> THEN <<>>
    ELSE ReadPointsFeature(Head(feats)) \o ReadPointsCollect(Tail(feats))

\* The points readPoints(layer) returns when the layer is not cached and
\* nothing throws.
readPoints(file) == IF ~file.exists THEN <<>> ELSE ReadPointsCollect(file.features)

InitScore ==
    /\ files \in Disks
    /\ LAYERS = <<>>
    /\ response = [kind |-> "none"]
    /\ locals = <<>>
    /\ probe = <<>>
    /\ cache = NoCache
    /\ reads = NoReads
    /\ weightsObj = WEIGHTS
    /\ mcp = <<>>
    /\ pager = <<>>

\* A call of readPoints(layer).
ReadPoints ==
    \E layer \in Kinds :
        /\ IF cache[layer] # <<>>
           THEN /\ response' = [kind |-> "points", layer |-> layer, value |-> cache[layer][1]]
                /\ UNCHANGED cache
           ELSE IF ReadThrows(files[layer])
           THEN /\ response' = [kind |-> "throw",
                                error |-> IF files[layer].parses THEN "TypeError"
                                          ELSE "SyntaxError"]
                /\ UNCHANGED cache
           ELSE /\ response' = [kind |-> "points", layer |-> layer,
                                value |-> readPoints(files[layer])]
                /\ cache' = [cache EXCEPT ![layer] = <<readPoints(files[layer])>>]
        /\ UNCHANGED <<files, LAYERS, locals, probe, reads, weightsObj, mcp, pager>>

\* The counts that saturate each signal.
cap == [shelters |-> 1, schools |-> 3, healths |-> 2]

\* The distance at which the availability of a layer with nothing in the
\* radius has faded to one half.
FADE_M == 2000

\* The arrow function avail of scorePoint in score.ts, in units of 1/ONE:
\* nearest_m is <<>> for null.
avail(count, nearest_m, softCap) ==
    IF count > 0 THEN Min2(ONE, (count * ONE) \div softCap)
    ELSE IF nearest_m = <<>> THEN 0
    ELSE IF nearest_m[1] = NaN THEN NaN
    ELSE (ONE * FADE_M) \div (FADE_M + nearest_m[1])

\* The counts and nearest distances that scorePoint hands to avail: a layer
\* with points in the radius has a nearest point.
MaxCount == 4
NearestArgs == {<<>>, <<0>>, <<1000>>, <<2000>>, <<4000>>, <<M_PER_DEG>>}

\* One evaluation of avail within scorePoint, for one layer.
Avail ==
    /\ \E layer \in DOMAIN cap, count \in 0..MaxCount, nearest_m \in NearestArgs :
          /\ count > 0 => nearest_m # <<>>
          /\ response' = [kind |-> "avail", layer |-> layer, count |-> count,
                          nearest_m |-> nearest_m,
                          value |-> avail(count, nearest_m, cap[layer])]
    /\ UNCHANGED <<files, LAYERS, locals, probe, cache, reads, weightsObj, mcp, pager>>

NextScore == ReadPoints \/ Avail

SpecScore == InitScore /\ [][NextScore]_vars

----------------------------------------------------------------------------
(* What the properties read *)

IsScore == response.kind = "score"
IsNearby == response.kind = "nearby"
Returned == IsScore \/ IsNearby

Unit(x, one) == x # NaN /\ 0 <= x /\ x <= one

InRange(lon, lat) ==
    /\ isFinite(lon) /\ 0 - 180 <= lon /\ lon <= 180
    /\ isFinite(lat) /\ 0 - 90 <= lat /\ lat <= 90

\* The catalog array of a category, and the list returned for it.
Layer(kind) == LAYERS[1][kind]
Listed(value, kind) ==
    CASE kind = "shelter" -> value.shelters
      [] kind = "school" -> value.schools
      [] OTHER -> value.healths

\* The per-category entries of a response as lists and as counts.
ListedPois(kind) ==
    IF IsNearby THEN Listed(response.value, kind)
    ELSE Listed(response.value, kind).nearest
ListedCount(kind) ==
    IF IsNearby THEN Len(Listed(response.value, kind))
    ELSE Listed(response.value, kind).count

\* The distance of a catalog point from the origin of the last call.
DistanceOf(p) ==
    haversineMeters(response.value.params.lon, response.value.params.lat, p.lon, p.lat)

\* The indices of the catalog points of a category at most radiusMeters away.
WithinIdx(kind) ==
    {i \in 1..Len(Layer(kind)) :
        LessEq(DistanceOf(Layer(kind)[i]), response.value.params.radiusMeters)}

SamePoint(near, p) == near.name = p.name /\ near.lon = p.lon /\ near.lat = p.lat

\* The points read for a category, in source order, before any are dropped
\* as duplicates: the health category reads health.geojson, then
\* hospitals.geojson.
Source(kind) ==
    IF kind = "health"
    THEN CollectPois(files["health"].features) \o CollectPois(files["hospital"].features)
    ELSE CollectPois(files[kind].features)

----------------------------------------------------------------------------
(* C1 *)

\* C1: for a finite origin and a finite radius, scorePoint's score is a
\* number in [0,1], and so are the count and the proximity sub-score of
\* every category.
C1_ScoreBounded ==
    (IsScore /\ isFinite(response.value.params.lon) /\ isFinite(response.value.params.lat)
             /\ isFinite(response.value.params.radiusMeters))
    => /\ Unit(response.value.score, SCORE_ONE)
       /\ \A k \in Kinds : /\ Unit(locals[1].countNorm[k], ONE)
                           /\ Unit(locals[1].prox[k], ONE)

----------------------------------------------------------------------------
(* C2 *)

\* C2: scorePoint and nearbyPois return nothing for a query whose longitude
\* or latitude is not finite or out of range, or whose radius is negative:
\* whatever they return was asked with an origin in range and a radius >= 0.
C2_InvalidQueryRejected ==
    Returned =>
        /\ InRange(response.value.params.lon, response.value.params.lat)
        /\ response.value.params.radiusMeters >= 0

----------------------------------------------------------------------------
(* C3 *)

\* C3: a scorePoint call with the arguments of an earlier call returns the
\* same counts, nearest points and score, whatever was called in between.
C3_Deterministic ==
    (IsScore /\ probe # <<>> /\ response.value.params = probe[1].seen.params)
    => response.value = probe[1].seen

\* A repeated call, after calls with other arguments, with two shelters tied
\* for nearest.
C3_Witness ==
    /\ IsScore /\ probe # <<>> /\ probe[1].between
    /\ response.value.params = probe[1].seen.params
    /\ response.value.shelters.count = 2
    /\ Layer("shelter")[1].lon = 2

----------------------------------------------------------------------------
(* C4 *)

AllEmpty == LAYERS # <<>> /\ \A k \in Kinds : Layer(k) = <<>>
NoFiles == \A n \in FileNames : ~files[n].exists

\* C4: with all three categories empty, and in particular with no source
\* file on disk, scorePoint throws nothing and returns count 0 and nearest
\* null for every category and a score of exactly 0.
C4_EmptyCatalogZero ==
    /\ (NoFiles /\ response.kind # "none") => (AllEmpty /\ Returned)
    /\ (AllEmpty /\ IsScore) =>
          /\ response.value.score = 0
          /\ \A k \in Kinds : /\ Listed(response.value, k).count = 0
                              /\ Listed(response.value, k).nearest = <<>>

\* scorePoint has answered from a disk without any of the four files.
C4_Witness == NoFiles /\ IsScore /\ response.value.params.radiusMeters = M_PER_DEG

----------------------------------------------------------------------------
(* C5 *)

\* C5: for a call that leaves topN at its default, the list nearbyPois
\* returns for a category holds exactly the catalog points at most
\* radiusMeters away, and the count scorePoint reports is their number.
C5_CountCoversRadius ==
    (Returned /\ response.value.params.topN = TOPN_DEFAULT)
    => \A k \in Kinds :
          /\ ListedCount(k) = Cardinality(WithinIdx(k))
          /\ IsNearby =>
                /\ \A i \in WithinIdx(k) :
                      \E j \in 1..Len(ListedPois(k)) : SamePoint(ListedPois(k)[j], Layer(k)[i])
                /\ \A j \in 1..Len(ListedPois(k)) :
                      \E i \in WithinIdx(k) : SamePoint(ListedPois(k)[j], Layer(k)[i])

----------------------------------------------------------------------------
(* C6 *)

\* C6: for an origin in range and a radius >= 0, scorePoint's nearest of a
\* category is the catalog point of that category closest to the origin,
\* within the radius or not, and it is null only when the category has no
\* point.
C6_NearestIsCatalogMinimum ==
    (IsScore /\ InRange(response.value.params.lon, response.value.params.lat)
             /\ response.value.params.radiusMeters >= 0)
    => \A k \in Kinds :
          LET nearest == Listed(response.value, k).nearest IN
          /\ (nearest = <<>>) <=> (Layer(k) = <<>>)
          /\ nearest # <<>> =>
                \A i \in 1..Len(Layer(k)) :
                    nearest[1].distance_m <= DistanceOf(Layer(k)[i])

----------------------------------------------------------------------------
(* C7 *)

\* The counts and the nearest distances the sub-scores are tried on.
Counts == 0..(TOPN_DEFAULT + 1)
Distances == {(k * M_PER_DEG) \div 4 : k \in 0..12} \cup {Infinity}

\* C7: with the proximity sub-score of the last call (its nearest distance
\* and radius) held fixed, a category's score does not decrease when the
\* count increases; the count sub-score is 0 at count 0, strictly
\* increasing in the count and at most 1.
C7_MonotoneInCount ==
    IsScore =>
        /\ countNorm(0) = 0
        /\ \A n \in Counts : countNorm(n) <= ONE
        /\ \A n, m \in Counts : n < m => countNorm(n) < countNorm(m)
        /\ \A k \in Kinds :
              LET px == locals[1].prox[k]
                  at(n) == catScore(WEIGHTS[k], countNorm(n), px)
              IN  /\ locals[1].catScore[k] = at(locals[1].count[k])
                  /\ \A n, m \in Counts : n < m => ~Greater(at(n), at(m))

\* scorePoint has counted two shelters whose nearest gives a proximity
\* sub-score strictly between 0 and 1.
C7_Witness ==
    /\ IsScore
    /\ locals[1].count["shelter"] = 2
    /\ locals[1].prox["shelter"] # NaN
    /\ 0 < locals[1].prox["shelter"] /\ locals[1].prox["shelter"] < ONE

----------------------------------------------------------------------------
(* C8 *)

\* C8: with the radius of the last call, the proximity sub-score does not
\* increase when the nearest distance increases, and it is 0 for a category
\* without a nearest point.
C8_MonotoneInDistance ==
    IsScore =>
        LET radiusMeters == response.value.params.radiusMeters IN
        /\ \A d1, d2 \in Distances :
              d1 <= d2 => ~Greater(prox(d2, radiusMeters), prox(d1, radiusMeters))
        /\ \A k \in Kinds :
              /\ locals[1].prox[k] = prox(locals[1].nearestDist[k], radiusMeters)
              /\ Listed(response.value, k).nearest = <<>> => locals[1].prox[k] = 0

\* One category has its nearest point half-way to the radius, another has
\* no nearest point.
C8_Witness ==
    /\ IsScore
    /\ locals[1].nearestDist["shelter"] = M_PER_DEG
    /\ response.value.params.radiusMeters = 2 * M_PER_DEG
    /\ locals[1].prox["shelter"] = POW13[(PROX_GRID \div 2) + 1]
    /\ response.value.schools.nearest = <<>>

----------------------------------------------------------------------------
(* C9 *)

\* C9: for a call with a positive radius that leaves topN at its default,
\* every catalog point exactly radiusMeters away is in the list returned
\* for its category and is counted; a point farther away is in no list.
C9_BoundaryInclusive ==
    (Returned /\ response.value.params.topN = TOPN_DEFAULT
              /\ response.value.params.radiusMeters > 0) =>
        \A k \in Kinds :
            /\ ListedCount(k) >=
                  Cardinality({i \in 1..Len(Layer(k)) :
                      DistanceOf(Layer(k)[i]) = response.value.params.radiusMeters})
            /\ \A j \in 1..Len(ListedPois(k)) :
                  LessEq(ListedPois(k)[j].distance_m, response.value.params.radiusMeters)

----------------------------------------------------------------------------
(* C10 *)

\* C10: a radius of 0 or a negative radius yields an empty list, count 0,
\* for every category, and no error.
C10_NoRadiusNoPoints ==
    /\ (LAYERS # <<>> /\ response.kind # "none") => Returned
    /\ (Returned /\ response.value.params.radiusMeters <= 0)
       => \A k \in Kinds : ListedCount(k) = 0 /\ ListedPois(k) = <<>>

\* C10, amended: a negative radius yields an empty list, count 0, for every
\* category; a radius of 0 yields only points at distance 0 from the
\* origin; neither raises an error.
C10_NoRadiusOnlyCoincident ==
    /\ (LAYERS # <<>> /\ response.kind # "none") => Returned
    /\ (Returned /\ response.value.params.radiusMeters < 0)
       => \A k \in Kinds : ListedCount(k) = 0 /\ ListedPois(k) = <<>>
    /\ (Returned /\ response.value.params.radiusMeters = 0)
       => \A k \in Kinds :
             /\ \A j \in 1..Len(ListedPois(k)) : ListedPois(k)[j].distance_m = 0
             /\ ListedCount(k) <= Cardinality({i \in 1..Len(Layer(k)) :
                                                  DistanceOf(Layer(k)[i]) = 0})

\* A call with radius 0 has listed a point that lies on the origin.
C10_Witness ==
    /\ Returned
    /\ response.value.params.radiusMeters = 0
    /\ ListedCount("shelter") > 0

----------------------------------------------------------------------------
(* C11 *)

\* C11: in the loaded catalog no two points of a category have the same
\* name, longitude and latitude; each catalog point is the first point in
\* source order with its name and coordinates, in source order, and every
\* point read is represented; for health the source is the health file
\* followed by the hospital file.
C11_NoDuplicates ==
    LAYERS # <<>> =>
        \A k \in Kinds :
            LET cat == Layer(k)
                src == Source(k)
                firsts == {j \in 1..Len(src) :
                              \A h \in 1..(j - 1) : ~SamePoint(src[h], src[j])}
            IN  /\ \A i, j \in 1..Len(cat) : i # j => ~SamePoint(cat[i], cat[j])
                /\ Len(cat) = Cardinality(firsts)
                /\ \A i \in 1..Len(cat) :
                      \E j \in firsts :
                          /\ cat[i] = src[j]
                          /\ Cardinality({h \in firsts : h < j}) = i - 1

\* The catalog was loaded from a shelter file with the same feature twice
\* and from a health and a hospital file that share a point, the hospital
\* file giving it another primary.
C11_Witness ==
    /\ LAYERS # <<>>
    /\ Len(Source("shelter")) = 2 /\ Len(Layer("shelter")) = 1
    /\ Len(Source("health")) = 3 /\ Len(Layer("health")) = 2
    /\ Source("health")[2].primary = "hospital"
    /\ Layer("health")[1].primary = "health"

----------------------------------------------------------------------------
(* C12 *)

\* C12: every point of the loaded catalog has its longitude in [-180, 180]
\* and its latitude in [-90, 90], and so has every point that nearbyPois
\* lists or scorePoint reports as nearest.
C12_CatalogInRange ==
    /\ LAYERS # <<>> =>
          \A k \in Kinds : \A i \in 1..Len(Layer(k)) :
              InRange(Layer(k)[i].lon, Layer(k)[i].lat)
    /\ Returned =>
          \A k \in Kinds : \A j \in 1..Len(ListedPois(k)) :
              InRange(ListedPois(k)[j].lon, ListedPois(k)[j].lat)

----------------------------------------------------------------------------
(* C13 *)

\* The category scores of the last scorePoint call are those that the
\* weights w (in percent) give with its count and proximity sub-scores.
AppliesWeights(w) ==
    \A k \in Kinds :
        locals[1].catScore[k] =
            IF locals[1].prox[k] = NaN THEN NaN
            ELSE w[k] * (MIX_COUNTS * locals[1].countNorm[k] + MIX_PROX * locals[1].prox[k])

----------------------------------------------------------------------------
(* C14 *)

\* The score scorePoint returns for the arguments of the last call on the
\* loaded catalog with all shelters removed.
ScoreWithoutShelters ==
    scorePoint([LAYERS[1] EXCEPT !.shelter = <<>>],
               Args(<<response.value.params.lon, response.value.params.lat>>,
                    response.value.params.radiusMeters,
                    response.value.params.topN)).result.score

\* C14: when the catalog has a shelter at most radiusMeters from the origin,
\* the score scorePoint returns is strictly greater than the score it
\* returns for the same arguments on the catalog without its shelters.
C14_ShelterRaisesScore ==
    (IsScore /\ WithinIdx("shelter") # {})
    => Greater(response.value.score, ScoreWithoutShelters)

----------------------------------------------------------------------------
(* C15 *)

IsExplained == response.kind = "http" /\ response.status = 200

\* The last /ai/explain request made the Overpass request, and it failed:
\* OSM was not switched off, the tool's answer had an empty category, and
\* fetch threw or the response was not OK.
OsmFailed ==
    /\ response.kind = "http" /\ locals # <<>>
    /\ ~locals[1].query.no_osm
    /\ \/ locals[1].toolResult.shelters.count = 0
       \/ locals[1].toolResult.schools.count = 0
       \/ locals[1].toolResult.healths.count = 0
    /\ locals[1].osm.kind \in {"reject", "status"}

\* C15: when the Overpass request of /ai/explain fails or is answered with
\* a status that is not OK, the response is a success and its scoreResult
\* is the tool's answer from local data: counts, nearest points and score
\* are unchanged.
C15_OsmFailureKeepsScore ==
    OsmFailed =>
        /\ response.status = 200
        /\ response.body.scoreResult = locals[1].toolResult
        /\ response.body.scoreResult.enrichment = <<>>

\* Overpass answered with a status that is not OK, and a body with elements
\* for the categories that the local data scored as empty, which are still
\* empty in the response.
C15_Witness ==
    /\ OsmFailed /\ IsExplained
    /\ locals[1].osm.kind = "status"
    /\ Len(locals[1].osm.elements) = 2
    /\ response.body.scoreResult.shelters.count = 1
    /\ response.body.scoreResult.schools.count = 0
    /\ response.body.scoreResult.score > 0

----------------------------------------------------------------------------
(* C16 *)

\* C16: every successful /ai/explain response carries an explanation with
\* an en and a ja text; both are the built-in texts for the scoreResult sent
\* when no API key is set, when the Gemini call throws and when its reply is
\* not JSON, and each is the built-in text when its field is missing from
\* the reply.  The built-in texts are never empty.
C16_ExplanationBilingual ==
    IsExplained =>
        LET ex == response.body.explanation
            g == locals[1].gemini
            fb == [en |-> fallbackExplain(response.body.scoreResult),
                   ja |-> fallbackExplainJa(response.body.scoreResult)]
        IN  /\ DOMAIN ex = {"en", "ja"}
            /\ ex.en \in Seq(STRING) /\ ex.ja \in Seq(STRING)
            /\ fb.en # <<>> /\ fb.ja # <<>> /\ fb.en # fb.ja
            /\ (~g.key \/ g.kind \in {"throws", "notjson"}) => ex = fb
            /\ (g.key /\ g.kind = "json" /\ g.en = <<>>) => ex.en = fb.en
            /\ (g.key /\ g.kind = "json" /\ g.ja = <<>>) => ex.ja = fb.ja

\* Gemini replied with JSON that has a ja field and no en field: the
\* response has the built-in English text and Gemini's Japanese text.
C16_Witness ==
    /\ IsExplained
    /\ locals[1].gemini.key /\ locals[1].gemini.kind = "json"
    /\ locals[1].gemini.en = <<>> /\ locals[1].gemini.ja # <<>>
    /\ response.body.explanation.en = fallbackExplain(response.body.scoreResult)
    /\ response.body.explanation.ja = locals[1].gemini.ja[1]

----------------------------------------------------------------------------
(* C17 *)

\* Points <<lon, lat>> that distances are taken to: the poles, points on
\* the equator and the antipodes of the origins.
Landmarks ==
    {<<0, 0>>, <<1, 0>>, <<90, 0>>, <<180, 0>>, <<0 - 180, 0>>, <<0 - 179, 0>>,
     <<0, 90>>, <<0, 0 - 90>>, <<200, 0>>, <<361, 0>>}

\* The origin of the last call and the points its distances were or could
\* be taken to: the catalog's points and the landmarks.
OriginOfCall == <<response.value.params.lon, response.value.params.lat>>
Targets ==
    Landmarks \cup {OriginOfCall}
    \cup UNION {{<<Layer(k)[i].lon, Layer(k)[i].lat>> : i \in 1..Len(Layer(k))} : k \in Kinds}

\* haversineMeters is 0 from p to p, and from p to q finite, not negative
\* and at most half the circumference.
GoodDistance(p, q) ==
    LET d == haversineMeters(p[1], p[2], q[1], q[2]) IN
    /\ isFinite(d) /\ 0 <= d /\ d <= 180 * M_PER_DEG
    /\ haversineMeters(p[1], p[2], p[1], p[2]) = 0
    /\ haversineMeters(q[1], q[2], q[1], q[2]) = 0

----------------------------------------------------------------------------
(* C18 *)

\* The place of a listed point in the catalog array of its category.
CatalogIndex(kind, p) ==
    CHOOSE i \in 1..Len(Layer(kind)) : SamePoint(Layer(kind)[i], p)

\* The catalog point that is closest among those at most radiusMeters away
\* and, among the closest, earliest in the catalog.
FirstClosest(kind) ==
    CHOOSE i \in WithinIdx(kind) :
        \A h \in WithinIdx(kind) :
            \/ DistanceOf(Layer(kind)[i]) < DistanceOf(Layer(kind)[h])
            \/ DistanceOf(Layer(kind)[i]) = DistanceOf(Layer(kind)[h]) /\ i <= h

\* C18: every per-category list of nearbyPois is in ascending order of
\* distance, points at the same distance in catalog order; the nearest that
\* scorePoint reports is, of the catalog points at the minimum distance
\* within the radius, the earliest in the catalog.
C18_StableOrder ==
    /\ IsNearby =>
          \A k \in Kinds :
              LET list == Listed(response.value, k) IN
              \A i, j \in 1..Len(list) :
                  i < j =>
                      /\ list[i].distance_m <= list[j].distance_m
                      /\ list[i].distance_m = list[j].distance_m
                            => CatalogIndex(k, list[i]) < CatalogIndex(k, list[j])
    /\ IsScore =>
          \A k \in Kinds :
              LET nearest == Listed(response.value, k).nearest IN
              nearest # <<>> =>
                  /\ WithinIdx(k) # {}
                  /\ SamePoint(nearest[1], Layer(k)[FirstClosest(k)])
                  /\ nearest[1].distance_m = DistanceOf(Layer(k)[FirstClosest(k)])

\* nearbyPois has listed, and scorePoint has chosen from, a catalog of
\* shelters that are all at the same distance from the origin.
C18_Witness ==
    /\ Returned
    /\ Len(Layer("shelter")) > TOPN_DEFAULT
    /\ ListedCount("shelter") >= 1
    /\ \A i \in 1..Len(Layer("shelter")) : DistanceOf(Layer("shelter")[i]) = M_PER_DEG
    /\ ListedPois("shelter")[1].name = <<"D", "a">>

----------------------------------------------------------------------------
(* C19 *)

\* The features of the files that feed a category, in source order.
SourceFeatures(kind) ==
    IF kind = "health" THEN files["health"].features \o files["hospital"].features
    ELSE files[kind].features

\* A feature with Point geometry, an array of two finite coordinates and a
\* name that is not blank.
WellFormed(f) ==
    /\ f.gtype = "Point" /\ f.coords = "array"
    /\ isFinite(f.lon) /\ isFinite(f.lat)
    /\ Trim(f.name) # <<>>

\* Every file on disk is a JSON document.
AllFilesParse == \A n \in FileNames : files[n].exists => files[n].parses

\* C19: when every file on disk parses, no call throws, whatever features
\* the files hold, and every well-formed feature of a file is in the loaded
\* catalog of its category.
C19_MalformedNeverAborts ==
    AllFilesParse =>
        /\ response.kind # "throw"
        /\ response.kind # "none" => LAYERS # <<>>
        /\ LAYERS # <<>> =>
              \A k \in Kinds : \A j \in 1..Len(SourceFeatures(k)) :
                  LET f == SourceFeatures(k)[j] IN
                  WellFormed(f) =>
                      \E i \in 1..Len(Layer(k)) :
                          /\ Layer(k)[i].name = Trim(f.name)
                          /\ Layer(k)[i].lon = f.lon /\ Layer(k)[i].lat = f.lat

----------------------------------------------------------------------------
(* C20 *)

\* The point p, loaded from the features feats, has finite coordinates and
\* a name that is not blank, and it came from a feature with Point geometry,
\* those coordinates and that name, trimmed or not.
FromValidFeature(p, feats) ==
    /\ Trim(p.name) # <<>>
    /\ isFinite(p.lon) /\ isFinite(p.lat)
    /\ \E j \in 1..Len(feats) :
          /\ feats[j].gtype = "Point"
          /\ feats[j].lon = p.lon /\ feats[j].lat = p.lat
          /\ Trim(feats[j].name) = Trim(p.name)

\* The catalog of poi-index.ts holds only such points, their names trimmed.
CatalogOnlyValid ==
    LAYERS # <<>> =>
        \A k \in Kinds : \A i \in 1..Len(Layer(k)) :
            /\ FromValidFeature(Layer(k)[i], SourceFeatures(k))
            /\ Trim(Layer(k)[i].name) = Layer(k)[i].name

\* The cache of score.ts holds only such points.
CacheOnlyValid ==
    \A k \in Kinds :
        cache[k] # <<>> =>
            \A i \in 1..Len(cache[k][1]) :
                FromValidFeature(cache[k][1][i], files[k].features)

\* C20: every point of a loaded catalog, that of poi-index.ts and that of
\* score.ts, came from a feature with Point geometry, has finite
\* coordinates and has a name that is not empty once trimmed; so a feature
\* that fails one of these has no point in the catalog.
C20_OnlyValidFeatures == CatalogOnlyValid /\ CacheOnlyValid

----------------------------------------------------------------------------
(* C21 *)

\* The arguments that give the params and the diagnostics of a scorePoint result.
ArgsOf(value) ==
    [Args(<<value.params.lon, value.params.lat>>, value.params.radiusMeters,
          value.params.topN) EXCEPT !.includeDiagnostics = value.diagnostics # <<>>]

----------------------------------------------------------------------------
(* C22 *)

\* C22: no sequence of scorePoint and nearbyPois calls changes the cached
\* catalog: every category list holds the points that loading the files
\* gave, with the same fields, in the same order.
C22_CatalogUnchanged ==
    LAYERS # <<>> => LAYERS[1] = BuildLayers(files)

\* C22 happens: the catalog lists the farther shelter first, and a call has
\* answered from an origin for which it had to sort the nearer one first.
C22_Witness ==
    /\ LAYERS # <<>>
    /\ Len(LAYERS[1].shelter) = 2
    /\ IsScore
    /\ response.value.shelters.count = 2
    /\ response.value.shelters.nearest[1].lon # LAYERS[1].shelter[1].lon
    /\ response.value.shelters.nearest[1].distance_m
          < haversineMeters(response.value.params.lon, response.value.params.lat,
                            LAYERS[1].shelter[1].lon, LAYERS[1].shelter[1].lat)

----------------------------------------------------------------------------
(* C23 *)

\* C23: scorePoint calls share no mutable state with the module: whatever
\* a caller writes to the objects reachable from a returned ScoreResult,
\* the weights the module applies stay the configured ones and the catalog
\* stays what loading the files gave.
C23_NoSharedState ==
    /\ weightsObj = WEIGHTS
    /\ LAYERS # <<>> => LAYERS[1] = BuildLayers(files)

----------------------------------------------------------------------------
(* C24 *)

\* C24: for a positive radius the sum of the three category scores that
\* scorePoint computes lies in [0, 1] before it is clamped, so the score
\* returned is that sum.
C24_ClampIsNoOp ==
    (IsScore /\ response.value.params.radiusMeters > 0) =>
        /\ locals[1].sum # NaN
        /\ locals[1].sum >= 0
        /\ locals[1].sum <= SCORE_ONE
        /\ response.value.score = locals[1].sum

\* C24 happens: a call with a positive radius has found points in its
\* radius, as many as topN lets through, the nearest at the origin, and the
\* sum is above one half.
C24_Witness ==
    /\ IsScore
    /\ response.value.params.radiusMeters > 0
    /\ response.value.shelters.count = TOPN_DEFAULT
    /\ locals[1].prox.shelter = ONE
    /\ locals[1].sum > SCORE_ONE \div 2

----------------------------------------------------------------------------
(* C25 *)

\* C25: for a fixed nearest distance the value avail gives a layer never
\* decreases when the count of points in the radius increases: it is at
\* least the value of every smaller count, the count 0 included.
C25_CapMonotoneInCount ==
    response.kind = "avail" =>
        \A n \in 0..(response.count - 1) :
            LessEq(avail(n, response.nearest_m, cap[response.layer]), response.value)

----------------------------------------------------------------------------
(* C26 *)

\* C26: however many requests call ensureMcp and however they interleave
\* while the first connection is in progress, at most one child process is
\* started and every request that gets a client gets the same one.
C26_OneClient ==
    /\ mcp.spawned <= 1
    /\ mcp.attempts <= 1
    /\ \A i \in 1..Len(mcp.reqs) : mcp.reqs[i].client \in {0, mcp.client}

\* C26 happens: three requests have called ensureMcp, two of them while
\* the connection of the first was in progress, and all three went on with
\* the client.
C26_Witness ==
    /\ Len(mcp.reqs) = 3
    /\ mcp.reqs[1].found = "null"
    /\ mcp.reqs[2].found = "pending"
    /\ mcp.reqs[3].found = "pending"
    /\ \A i \in 1..3 : mcp.reqs[i].pc = "done" /\ mcp.reqs[i].client = 1
    /\ mcp.spawned = 1

----------------------------------------------------------------------------
(* C27 *)

\* The first attempt to connect has failed.
McpFailed == mcp.error # "none"

\* C27: once the first ensureMcp attempt has failed, no new attempt is
\* started, and every request that arrives later answers 500.
C27_AlwaysAnswers500 ==
    McpFailed =>
        /\ mcp.singleton = "rejected"
        /\ mcp.attempts = 1
        /\ \A i \in 1..Len(mcp.reqs) :
              (mcp.reqs[i].found = "rejected" /\ mcp.reqs[i].pc = "done")
                  => mcp.reqs[i].status = 500

\* C27, amended: once the first ensureMcp attempt has failed, no new
\* attempt is started and the promise stays rejected with the same error;
\* every request that calls ensureMcp, before or after the failure, answers
\* 500 with that error, and a request without a valid lon and lat answers
\* 400 without calling ensureMcp.
C27_FailureIsFinal ==
    McpFailed =>
        /\ mcp.singleton = "rejected"
        /\ mcp.attempts = 1
        /\ mcp.client = 0
        /\ \A i \in 1..Len(mcp.reqs) :
              mcp.reqs[i].pc = "done" =>
                  IF QueryValid(mcp.reqs[i].query)
                  THEN mcp.reqs[i].status = 500 /\ mcp.reqs[i].error = mcp.error
                  ELSE mcp.reqs[i].status = 400

\* C27 happens: the connection started by the first request has failed
\* while a second request was waiting for it, a third request came after
\* the failure, and all three have answered 500.
C27_Witness ==
    /\ mcp.error = "connect"
    /\ Len(mcp.reqs) = 3
    /\ mcp.reqs[1].found = "null"
    /\ mcp.reqs[2].found = "pending"
    /\ mcp.reqs[3].found = "rejected"
    /\ \A i \in 1..3 : /\ QueryValid(mcp.reqs[i].query)
                        /\ mcp.reqs[i].pc = "done"
                        /\ mcp.reqs[i].status = 500
    /\ response.status = 500

----------------------------------------------------------------------------
(* C28 *)

\* The categories of a score result.
Buckets == {"shelters", "schools", "healths"}

\* C28: in a successful /ai/explain response, a category that the tool's
\* answer gave a count above 0 has the count and the nearest point of that
\* answer, whatever OSM returned; the score is not below the tool's score
\* and not above 1 (a tool score of null, for NaN, counts as 0, and stays
\* null when nothing was taken from OSM).
C28_EnrichmentOnlyFillsEmpty ==
    IsExplained =>
        LET before == locals[1].toolResult
            after == response.body.scoreResult
        IN  /\ \A b \in Buckets : before[b].count > 0 => after[b] = before[b]
            /\ after.enrichment = <<>> => after = before
            /\ after.enrichment # <<>> =>
                  /\ after.score >= NumberOr0(before.score)
                  /\ after.score >= 0
                  /\ after.score <= SCORE_ONE

\* C28 happens: the tool found a shelter and no school, OSM returned a
\* shelter and a school, and the response has the tool's shelter, the
\* school of OSM and a score above the tool's.
C28_Witness ==
    /\ IsExplained
    /\ locals[1].toolResult.shelters.count = 1
    /\ locals[1].toolResult.schools.count = 0
    /\ Len(classifyOSM(locals[1].osm.elements, 0, 0).shelters) = 1
    /\ response.body.scoreResult.enrichment # <<>>
    /\ response.body.scoreResult.shelters = locals[1].toolResult.shelters
    /\ response.body.scoreResult.schools.count = 1
    /\ response.body.scoreResult.score > locals[1].toolResult.score
    /\ locals[1].toolResult.score > 0

----------------------------------------------------------------------------
(* C29 *)

\* The radii a call is compared with.
LargerRadii == {RADIUS_DEFAULT, M_PER_DEG, 2 * M_PER_DEG, 3 * M_PER_DEG}

\* The local values of the last scorePoint call had its radius been r.
LocalsAtRadius(r) ==
    scorePoint(LAYERS[1], [ArgsOf(response.value) EXCEPT !.radiusMeters = r]).locals

\* C29: for a fixed catalog and origin the score of scorePoint never
\* decreases when the radius increases over positive values, and neither
\* does any category's count or proximity sub-score.
C29_MonotoneInRadius ==
    (IsScore /\ response.value.params.radiusMeters > 0) =>
        \A r \in LargerRadii :
            r >= response.value.params.radiusMeters =>
                LET wider == LocalsAtRadius(r)
                IN  /\ LessEq(locals[1].score, wider.score)
                    /\ \A k \in Kinds :
                          /\ locals[1].count[k] <= wider.count[k]
                          /\ LessEq(locals[1].prox[k], wider.prox[k])

\* C29 happens: a call with a radius of one degree of arc has one shelter
\* and no school in its radius, and with twice the radius it would have two
\* shelters, a school and a higher score.
C29_Witness ==
    /\ IsScore
    /\ response.value.params.radiusMeters = M_PER_DEG
    /\ locals[1].count.shelter = 1
    /\ locals[1].count.school = 0
    /\ LET wider == LocalsAtRadius(2 * M_PER_DEG)
       IN  /\ wider.count.shelter = 2
           /\ wider.count.school = 1
           /\ wider.score > locals[1].score

----------------------------------------------------------------------------
(* C30 *)

\* The gql calls pageAll can still make at most, while it is in the loop.
CallsLeft(p) == (p.maxPages - p.page) * Len(Candidates) + (Len(Candidates) - p.cand) + 1

\* A step in the loop ends pageAll or leaves it fewer calls to make, and
\* once pageAll has ended nothing changes.
PagerAdvances ==
    /\ pager.pc = "loop" =>
          \/ pager'.pc \in {"returned", "thrown"}
          \/ pager'.pc = "loop" /\ CallsLeft(pager') < CallsLeft(pager)
                               /\ CallsLeft(pager') >= 1
    /\ pager.pc \in {"returned", "thrown"} => pager' = pager

PageAllBounded ==
    LET m == pager.maxPages
        n == Len(Candidates)
    IN  /\ pager.page > 0 => LessEq(pager.page, m)
        /\ pager.pc = "idle" => pager.page = 0 /\ pager.last = "none"
        /\ pager.pc = "loop" =>
              /\ pager.page >= 1 /\ pager.cand \in 1..n
              /\ pager.ok = pager.page - 1
              /\ pager.last = (IF pager.cand > 1 THEN "fail"
                               ELSE IF pager.page > 1 THEN "more" ELSE "none")
        /\ pager.last = "last" => pager.pc = "returned" /\ pager.ok = pager.page
        /\ pager.pc = "thrown" <=>
              (pager.last = "fail" /\ pager.cand = n /\ pager.pc # "loop")
        /\ pager.pc = "thrown" => pager.ok = pager.page - 1
        /\ pager.pc = "returned" =>
              \/ pager.last = "last"
              \/ pager.last = "more" /\ pager.page = m /\ pager.ok = m
              \/ pager.last = "none" /\ pager.page = 0 /\ ~LessEq(1, m)
        /\ pager.acc <= pager.ok
        /\ pager.used = <<>> <=> pager.ok = 0

\* C30: pageAll makes at most maxPages page iterations, and none when
\* maxPages is below 1 or not a number; in a page it tries the candidates
\* in order and goes on to the next page at the first that succeeds; it
\* has returned whenever a page reported no next page, it has thrown
\* exactly when all candidates failed for one page, and otherwise it
\* returns after maxPages pages that all succeeded.  Every gql call that
\* is answered ends pageAll or brings it closer to its end.
C30_PageAllEnds == []PageAllBounded /\ [][PagerAdvances]_vars

\* C30 happens: pageAll has returned after maxPages = 3 pages that all
\* reported a next page, the first shape having failed on the first page.
C30_Witness ==
    /\ pager.pc = "returned"
    /\ pager.maxPages = 3
    /\ pager.page = 3
    /\ pager.last = "more"
    /\ pager.used = <<Candidates[2]>>
    /\ pager.acc = 3

====
